---- MODULE Spec2Model ----
(***************************************************************************)
(* Verification model of the travel-itinerary orchestration code.          *)
(*                                                                         *)
(*   Spec     the sequential workflow                                      *)
(*            (workflows/travel_itinerary_workflow.py, data_models.py)     *)
(*   FairSpec the same, with the fairness the asyncio event loop gives     *)
(*   ParSpec  the parallel workflow (workflows/travel_workflow.py)         *)
(*   ConvSpec the RequestParser conversation (agents/request_parser.py)    *)
(*   TierSpec determine_accommodation_type on pairs of argument lists      *)
(*   PlanSpec _create_daily_itineraries (agents/activities_planner.py)     *)
(*   AccSpec  suggest_accommodations (agents/accommodation_suggester.py)   *)
(*   FanSpec  the gathered _execute_search coroutines of an agent step     *)
(*                                                                         *)
(* Time stamps, durations, log lines and message texts are left out; an    *)
(* error message is modelled by the handler that produced it.              *)
(***************************************************************************)
EXTENDS Integers, Sequences, FiniteSets, TLC

VARIABLES
    pc,                 \* position of execute_workflow
    attempt,            \* the loop variable of each stage's retry loop
    workflow_metadata,  \* WorkflowMetadata (agent records, stage, status, errors)
    response,           \* TravelItineraryResponse (the three outputs, summary)
    progress,           \* percentages handed to the progress callback, in order
    llm_log,            \* per stage: collaborator behaviour seen on each attempt
    handler_taken,      \* TRUE once the except-clause of execute_workflow ran
    search_seen,        \* how the search collaborator behaved in the research calls
    ppc,                \* position of generate_itinerary (parallel workflow)
    interactive,        \* TravelItineraryWorkflow.interactive
    conversation_turn,  \* loop counter of _handle_interactive_conversation
    travel_request,     \* result of _handle_request_parsing
    current_currency,   \* TravelItineraryWorkflow._current_currency
    metrics,            \* fields of WorkflowMetrics assigned so far
    task,               \* the two asyncio tasks: position and result
    presponse,          \* value returned / raised by generate_itinerary
    collected_data,     \* ConversationManager.collected_data of the RequestParser
    llm_response,       \* what the model answered in the last turn
    returned,           \* what the last start_/continue_conversation returned
    tier_args,          \* two argument lists of determine_accommodation_type
    tier_result,        \* the tiers it returned for them
    activities,         \* the activities handed to _create_daily_itineraries
    trip_duration,      \* travel_request.duration of the itinerary phase
    plan_pc,            \* position of _create_daily_itineraries
    day,                \* its loop variable
    daily_itineraries,  \* the DayItinerary list it builds
    acc_pc,             \* position of suggest_accommodations
    acc_itinerary,   \* the ItineraryOutput handed to suggest_accommodations
    budget_info,        \* result of _extract_budget_info
    key_activity_areas, \* location_analysis["key_activity_areas"] (its length)
    budget_categories,  \* budget_categories["budget_categories"]
    budget_tier,        \* result of _classify_budget_tier
    hotels,             \* result of _search_hotels_by_location
    acc_failed,         \* the pipeline steps that failed in this call
    acc_result,         \* what suggest_accommodations returned or raised
    fan_pc,             \* position of the fan-out search
    search_tasks,       \* per query: pending, or how _execute_search ended
    completion_order,   \* the queries in the order they completed
    all_results         \* the aggregated result list

seqVars == <<pc, attempt, workflow_metadata, response, progress, llm_log, handler_taken,
             search_seen>>
parVars == <<ppc, interactive, conversation_turn, travel_request, current_currency,
             metrics, task, presponse>>
convVars == <<collected_data, llm_response, returned>>
tierVars == <<tier_args, tier_result>>
planVars == <<activities, trip_duration, plan_pc, day, daily_itineraries>>
accVars == <<acc_pc, acc_itinerary, budget_info, key_activity_areas, budget_categories,
             budget_tier, hotels, acc_failed, acc_result>>
fanVars == <<fan_pc, search_tasks, completion_order, all_results>>
agentVars == <<convVars, tierVars, planVars, accVars, fanVars>>
vars == <<pc, attempt, workflow_metadata, response, progress, llm_log, handler_taken,
          search_seen, ppc, interactive, conversation_turn, travel_request, current_currency,
          metrics, task, presponse, agentVars>>

None == "None"

(***************************************************************************)
(* Program constants                                                       *)
(***************************************************************************)
max_retries == 2

\* The progress callback gets percentages; get_completion_percentage returns
\* thirds of 100, so every percentage is kept multiplied by PctScale.
PctScale == 3

Pct(p) == p * PctScale

Agents == {"request_parser", "activities_planner", "accommodation_suggester"}

AgentStatus == {"pending", "running", "completed", "failed", "skipped"}

WorkflowStage == {"parsing_request", "finding_places", "planning_activities",
                  "finding_accommodations", "assembling_response",
                  "completed", "failed"}

(***************************************************************************)
(* data_models.py                                                          *)
(***************************************************************************)
AgentExecution == [status |-> "pending", retry_count |-> 0, error_message |-> None]

start(a) == [a EXCEPT !.status = "running"]

complete_mutant(a) == a
complete(a) == [a EXCEPT !.status = "completed"]

fail(a, error_message) ==
    [a EXCEPT !.status = "failed", !.error_message = error_message]

create_workflow_metadata ==
    [current_stage |-> "parsing_request",
     overall_status |-> "running",
     request_parser |-> AgentExecution,
     activities_planner |-> AgentExecution,
     accommodation_suggester |-> AgentExecution,
     errors |-> <<>>]

create_empty_response ==
    [parsed_request |-> None, itinerary |-> None, accommodations |-> None,
     summary |-> None]

complete_workflow_mutant(md) == [md EXCEPT !.current_stage = "completed"]
complete_workflow(md) ==
    [md EXCEPT !.current_stage = "completed", !.overall_status = "completed"]

\* the stage is left where the exception found it
fail_workflow_mutant(md) ==
    [md EXCEPT !.overall_status = "failed",
               !.errors = Append(@, "Workflow failure")]

fail_workflow(md) ==
    [md EXCEPT !.current_stage = "failed", !.overall_status = "failed",
               !.errors = Append(@, "Workflow failure")]

\* (completed_agents / 3) * 100, multiplied by PctScale
get_completion_percentage(md) ==
    Cardinality({a \in Agents : md[a].status = "completed"}) * 100

has_errors(md) ==
    Len(md.errors) > 0 \/ \E a \in Agents : md[a].status = "failed"

is_partial_success(md) ==
    /\ \E a \in Agents : md[a].status = "completed"
    /\ \E a \in Agents : md[a].status = "failed"

Components(r) == <<r.parsed_request, r.itinerary, r.accommodations>>

is_complete(r) == \A i \in 1..3 : Components(r)[i] # None

is_partial(r) ==
    /\ \E i \in 1..3 : Components(r)[i] # None
    /\ ~ \A i \in 1..3 : Components(r)[i] # None

(***************************************************************************)
(* Collaborators.  What the language-model call of an attempt does:        *)
(*   ok         valid JSON of the expected schema                          *)
(*   incomplete (RequestParser only) valid JSON with is_complete false     *)
(*   bad_shape  valid JSON that lacks the keys the agent reads             *)
(*   malformed  text that is not JSON                                      *)
(*   raise      the call raises                                            *)
(*   hang       no answer within agent_timeout                             *)
(***************************************************************************)
ParserLLM == {"ok", "incomplete", "bad_shape", "malformed", "raise", "hang"}

AgentLLM == {"ok", "bad_shape", "malformed", "raise", "hang"}

\* RequestParserAgent.start_conversation: the is_complete flag of the dict it
\* returns.  _process_with_llm turns every failure into _create_error_response
\* (is_complete False); start_conversation itself catches everything else.
start_conversation(llm) == llm = "ok"

\* the search collaborator (Tavily) in one research call: its queries return
\* results, or every query raises
SearchOutcomes == {"results", "raises"}

\* _search_must_visit_places: _execute_search catches what the client raises
\* and returns [], so the gathered result list is empty; nothing is raised
search_must_visit_places(tavily) ==
    IF tavily = "raises" THEN "no_results" ELSE "results"

\* ActivitiesPlanner.research_destination: the search results only enter the
\* prompt of _analyze_places_with_llm, which returns a
\* dict in every case, and research_destination reads "places" from it with a
\* default of [], whatever its "status"; only a reply that is not a JSON
\* object (places_analysis.get raises) gives status "error".
research_destination(llm) ==
    [status |-> IF llm = "bad_shape" THEN "error" ELSE "success",
     must_visit_places |-> IF llm = "ok" THEN "places" ELSE "no_places"]

\* AccommodationSuggester.suggest_accommodations: steps 2, 3 and 5 replace a
\* failed or malformed model reply by their fallback (the output then carries
\* the one "Sample ... Hotel" of _fallback_hotel_extraction); a reply whose
\* "budget_categories" lack the band of the tier raises KeyError in
\* suggest_accommodations itself (nightly_budget_range), which re-raises.
suggest_accommodations(llm) ==
    IF llm = "bad_shape" THEN "raise"
    ELSE IF llm = "ok" THEN "accommodations" ELSE "sample_accommodations"

(***************************************************************************)
(* travel_itinerary_workflow.py                                            *)
(***************************************************************************)
ErrorText == [request_parser |-> "RequestParser error",
              activities_planner |-> "ActivitiesPlanner error",
              accommodation_suggester |-> "AccommodationSuggester error"]

TimeoutText == [request_parser |-> "RequestParser timeout",
                activities_planner |-> "ActivitiesPlanner timeout",
                accommodation_suggester |-> "AccommodationSuggester timeout"]

\* _update_progress: the callback sees the percentage
update_progress(p) == Append(progress, p)

\* off by one in the retry test: one retry too many, and never failed
OnTimeout_mutant(md, a, att) ==
    IF att <= max_retries
    THEN [md EXCEPT ![a].retry_count = @ + 1]
    ELSE [md EXCEPT ![a] = fail(@, TimeoutText[a])]

\* except asyncio.TimeoutError: retry, or fail the agent
OnTimeout(md, a, att) ==
    IF att < max_retries
    THEN [md EXCEPT ![a].retry_count = @ + 1]
    ELSE [md EXCEPT ![a] = fail(@, TimeoutText[a])]

\* the last failure is swallowed: neither fail() nor the errors entry
OnException_mutant(md, a, att) ==
    IF att < max_retries
    THEN [md EXCEPT ![a].retry_count = @ + 1]
    ELSE md

\* except Exception: retry, or fail the agent and record the error
OnException(md, a, att) ==
    IF att < max_retries
    THEN [md EXCEPT ![a].retry_count = @ + 1]
    ELSE [md EXCEPT ![a] = fail(@, ErrorText[a]),
                    !.errors = Append(@, ErrorText[a])]

\* the stage-2 gate tests nothing
if_parsed_request_mutant == TRUE

\* the stage-3 gate tests the field of the wrong stage
if_itinerary_mutant == response.parsed_request # None

\* the gates of execute_workflow
if_parsed_request == response.parsed_request # None

if_itinerary == response.itinerary # None

Log(a, llm) == [llm_log EXCEPT ![a] = Append(@, llm)]

SeqInit ==
    /\ pc = "start"
    /\ attempt = [a \in Agents |-> 0]
    /\ workflow_metadata = create_workflow_metadata
    /\ response = create_empty_response
    /\ progress = <<>>
    /\ llm_log = [a \in Agents |-> <<>>]
    /\ handler_taken = FALSE
    /\ search_seen = {}

\* execute_workflow up to the try: the first progress report
execute_workflow ==
    /\ UNCHANGED <<parVars, agentVars, search_seen>>
    /\ pc = "start"
    /\ progress' = update_progress(Pct(0))
    /\ pc' = "parser_enter"
    /\ UNCHANGED <<attempt, workflow_metadata, response, llm_log, handler_taken>>

---------------------------------------------------------------------------
\* Stage 1: _execute_request_parser

parser_enter ==
    /\ UNCHANGED <<parVars, agentVars, search_seen>>
    /\ pc = "parser_enter"
    /\ workflow_metadata' = [workflow_metadata EXCEPT !.current_stage = "parsing_request"]
    /\ progress' = update_progress(Pct(5))
    /\ attempt' = [attempt EXCEPT !["request_parser"] = 0]
    /\ pc' = "parser_try"
    /\ UNCHANGED <<response, llm_log, handler_taken>>

parser_try ==
    /\ UNCHANGED <<parVars, agentVars, search_seen>>
    /\ pc = "parser_try"
    /\ workflow_metadata' = [workflow_metadata EXCEPT !.request_parser = start(@)]
    /\ pc' = "parser_await"
    /\ UNCHANGED <<attempt, response, progress, llm_log, handler_taken>>

\* start_conversation returned: the request is converted, or replaced by the
\* simplified default request when the parser is not complete
parser_return ==
    /\ UNCHANGED <<parVars, agentVars, search_seen>>
    /\ pc = "parser_await"
    /\ \E llm \in ParserLLM \ {"hang"} :
        /\ response' = [response EXCEPT !.parsed_request =
                           IF start_conversation(llm) THEN "final_request"
                                                      ELSE "simplified_request"]
        /\ llm_log' = Log("request_parser", llm)
    /\ workflow_metadata' = [workflow_metadata EXCEPT !.request_parser = complete(@)]
    /\ progress' = update_progress(Pct(25))
    /\ pc' = "gate_planner"
    /\ UNCHANGED <<attempt, handler_taken>>

parser_timeout ==
    /\ UNCHANGED <<parVars, agentVars, search_seen>>
    /\ pc = "parser_await"
    /\ llm_log' = Log("request_parser", "hang")
    /\ workflow_metadata' = OnTimeout(workflow_metadata, "request_parser",
                                      attempt["request_parser"])
    /\ IF attempt["request_parser"] < max_retries
       THEN /\ pc' = "parser_sleep"
            /\ UNCHANGED progress
       ELSE /\ pc' = "gate_planner"
            /\ progress' = update_progress(Pct(25))
    /\ UNCHANGED <<attempt, response, handler_taken>>

\* an exception raised in the try body outside start_conversation's own
\* handlers (the conversion of the reply, for instance)
parser_exception ==
    /\ UNCHANGED <<parVars, agentVars, search_seen>>
    /\ pc = "parser_await"
    /\ llm_log' = Log("request_parser", "fault")
    /\ workflow_metadata' = OnException(workflow_metadata, "request_parser",
                                        attempt["request_parser"])
    /\ IF attempt["request_parser"] < max_retries
       THEN /\ pc' = "parser_sleep"
            /\ UNCHANGED progress
       ELSE /\ pc' = "gate_planner"
            /\ progress' = update_progress(Pct(25))
    /\ UNCHANGED <<attempt, response, handler_taken>>

\* asyncio.sleep(retry_delay) is over: continue with the next attempt
parser_sleep ==
    /\ UNCHANGED <<parVars, agentVars, search_seen>>
    /\ pc = "parser_sleep"
    /\ attempt' = [attempt EXCEPT !["request_parser"] = @ + 1]
    /\ pc' = "parser_try"
    /\ UNCHANGED <<workflow_metadata, response, progress, llm_log, handler_taken>>

---------------------------------------------------------------------------
\* Stage 2: _execute_activities_planner

planner_enter ==
    /\ UNCHANGED <<parVars, agentVars, search_seen>>
    /\ pc = "planner_enter"
    /\ workflow_metadata' = [workflow_metadata EXCEPT !.current_stage = "finding_places"]
    /\ progress' = update_progress(Pct(30))
    /\ attempt' = [attempt EXCEPT !["activities_planner"] = 0]
    /\ pc' = "planner_try"
    /\ UNCHANGED <<response, llm_log, handler_taken>>

planner_try ==
    /\ UNCHANGED <<parVars, agentVars, search_seen>>
    /\ pc = "planner_try"
    /\ workflow_metadata' = [workflow_metadata EXCEPT !.activities_planner = start(@)]
    /\ pc' = "planner_research"
    /\ UNCHANGED <<attempt, response, progress, llm_log, handler_taken>>

\* the except Exception clause of the stage, shared by its raising steps
planner_except ==
    /\ workflow_metadata' = OnException(workflow_metadata, "activities_planner",
                                        attempt["activities_planner"])
    /\ IF attempt["activities_planner"] < max_retries
       THEN /\ pc' = "planner_sleep"
            /\ UNCHANGED progress
       ELSE /\ pc' = "gate_suggester"
            /\ progress' = update_progress(Pct(65))
    /\ UNCHANGED <<attempt, response, handler_taken>>

\* research_destination returned; a status other than "success" is raised
\* as an exception inside the try
planner_research_return ==
    /\ UNCHANGED <<parVars, agentVars>>
    /\ pc = "planner_research"
    /\ \E llm \in AgentLLM \ {"hang"}, tavily \in SearchOutcomes :
        /\ llm_log' = Log("activities_planner", llm)
        /\ search_seen' = search_seen \cup {tavily}
        /\ IF research_destination(llm).status # "success"
           THEN planner_except
           ELSE /\ pc' = "planner_generate"
                /\ UNCHANGED <<attempt, workflow_metadata, response, progress,
                               handler_taken>>

planner_timeout ==
    /\ UNCHANGED <<parVars, agentVars, search_seen>>
    /\ pc = "planner_research"
    /\ llm_log' = Log("activities_planner", "hang")
    /\ workflow_metadata' = OnTimeout(workflow_metadata, "activities_planner",
                                      attempt["activities_planner"])
    /\ IF attempt["activities_planner"] < max_retries
       THEN /\ pc' = "planner_sleep"
            /\ UNCHANGED progress
       ELSE /\ pc' = "gate_suggester"
            /\ progress' = update_progress(Pct(65))
    /\ UNCHANGED <<attempt, response, handler_taken>>

\* generate_itinerary returned the itinerary built from the places found
planner_generate_return ==
    /\ UNCHANGED <<parVars, agentVars, search_seen>>
    /\ pc = "planner_generate"
    /\ LET log == llm_log["activities_planner"]
           places == research_destination(log[Len(log)]).must_visit_places
       IN response' = [response EXCEPT !.itinerary =
                          IF places = "places" THEN "itinerary"
                                               ELSE "itinerary_without_places"]
    /\ workflow_metadata' = [workflow_metadata EXCEPT !.activities_planner = complete(@)]
    /\ progress' = update_progress(Pct(65))
    /\ pc' = "gate_suggester"
    /\ UNCHANGED <<attempt, llm_log, handler_taken>>

\* generate_itinerary re-raises what its own steps raise
planner_generate_raise ==
    /\ UNCHANGED <<parVars, agentVars, search_seen>>
    /\ pc = "planner_generate"
    /\ planner_except
    /\ UNCHANGED llm_log

planner_sleep ==
    /\ UNCHANGED <<parVars, agentVars, search_seen>>
    /\ pc = "planner_sleep"
    /\ attempt' = [attempt EXCEPT !["activities_planner"] = @ + 1]
    /\ pc' = "planner_try"
    /\ UNCHANGED <<workflow_metadata, response, progress, llm_log, handler_taken>>

---------------------------------------------------------------------------
\* Stage 3: _execute_accommodation_suggester

suggester_enter ==
    /\ UNCHANGED <<parVars, agentVars, search_seen>>
    /\ pc = "suggester_enter"
    /\ workflow_metadata' = [workflow_metadata EXCEPT
                                !.current_stage = "finding_accommodations"]
    /\ progress' = update_progress(Pct(70))
    /\ attempt' = [attempt EXCEPT !["accommodation_suggester"] = 0]
    /\ pc' = "suggester_try"
    /\ UNCHANGED <<response, llm_log, handler_taken>>

suggester_try ==
    /\ UNCHANGED <<parVars, agentVars, search_seen>>
    /\ pc = "suggester_try"
    /\ workflow_metadata' = [workflow_metadata EXCEPT !.accommodation_suggester = start(@)]
    /\ pc' = "suggester_await"
    /\ UNCHANGED <<attempt, response, progress, llm_log, handler_taken>>

suggester_return ==
    /\ UNCHANGED <<parVars, agentVars, search_seen>>
    /\ pc = "suggester_await"
    /\ \E llm \in AgentLLM \ {"hang"} :
        /\ suggest_accommodations(llm) # "raise"
        /\ response' = [response EXCEPT !.accommodations = suggest_accommodations(llm)]
        /\ llm_log' = Log("accommodation_suggester", llm)
    /\ workflow_metadata' = [workflow_metadata EXCEPT
                                !.accommodation_suggester = complete(@)]
    /\ progress' = update_progress(Pct(90))
    /\ pc' = "assemble"
    /\ UNCHANGED <<attempt, handler_taken>>

suggester_timeout ==
    /\ UNCHANGED <<parVars, agentVars, search_seen>>
    /\ pc = "suggester_await"
    /\ llm_log' = Log("accommodation_suggester", "hang")
    /\ workflow_metadata' = OnTimeout(workflow_metadata, "accommodation_suggester",
                                      attempt["accommodation_suggester"])
    /\ IF attempt["accommodation_suggester"] < max_retries
       THEN /\ pc' = "suggester_sleep"
            /\ UNCHANGED progress
       ELSE /\ pc' = "assemble"
            /\ progress' = update_progress(Pct(90))
    /\ UNCHANGED <<attempt, response, handler_taken>>

suggester_exception ==
    /\ UNCHANGED <<parVars, agentVars, search_seen>>
    /\ pc = "suggester_await"
    /\ \E llm \in AgentLLM \ {"hang"} :
        /\ suggest_accommodations(llm) = "raise"
        /\ llm_log' = Log("accommodation_suggester", llm)
    /\ workflow_metadata' = OnException(workflow_metadata, "accommodation_suggester",
                                        attempt["accommodation_suggester"])
    /\ IF attempt["accommodation_suggester"] < max_retries
       THEN /\ pc' = "suggester_sleep"
            /\ UNCHANGED progress
       ELSE /\ pc' = "assemble"
            /\ progress' = update_progress(Pct(90))
    /\ UNCHANGED <<attempt, response, handler_taken>>

suggester_sleep ==
    /\ UNCHANGED <<parVars, agentVars, search_seen>>
    /\ pc = "suggester_sleep"
    /\ attempt' = [attempt EXCEPT !["accommodation_suggester"] = @ + 1]
    /\ pc' = "suggester_try"
    /\ UNCHANGED <<workflow_metadata, response, progress, llm_log, handler_taken>>

---------------------------------------------------------------------------
\* execute_workflow: the gates between the stages, assembly, the two ends

gate_planner ==
    /\ UNCHANGED <<parVars, agentVars, search_seen>>
    /\ pc = "gate_planner"
    /\ pc' = IF if_parsed_request THEN "planner_enter" ELSE "gate_suggester"
    /\ UNCHANGED <<attempt, workflow_metadata, response, progress, llm_log,
                   handler_taken>>

gate_suggester ==
    /\ UNCHANGED <<parVars, agentVars, search_seen>>
    /\ pc = "gate_suggester"
    /\ pc' = IF if_itinerary THEN "suggester_enter" ELSE "assemble"
    /\ UNCHANGED <<attempt, workflow_metadata, response, progress, llm_log,
                   handler_taken>>

\* assembly forgets to enter ASSEMBLING_RESPONSE
assemble_final_response_mutant ==
    /\ UNCHANGED <<parVars, agentVars, search_seen>>
    /\ pc = "assemble"
    /\ progress' = update_progress(Pct(95))
    /\ response' = [response EXCEPT !.summary = "summary"]
    /\ pc' = "complete"
    /\ UNCHANGED <<attempt, workflow_metadata, llm_log, handler_taken>>

\* _assemble_final_response: the summary is built inside a try of its own;
\* summary_ok is FALSE when building it raises
assemble_final_response ==
    /\ UNCHANGED <<parVars, agentVars, search_seen>>
    /\ pc = "assemble"
    /\ progress' = update_progress(Pct(95))
    /\ \E summary_ok \in BOOLEAN :
        IF summary_ok
        THEN /\ response' = [response EXCEPT !.summary = "summary"]
             /\ workflow_metadata' = [workflow_metadata EXCEPT
                                         !.current_stage = "assembling_response"]
        ELSE /\ response' = [response EXCEPT !.summary = "Error generating summary"]
             /\ workflow_metadata' = [workflow_metadata EXCEPT
                     !.current_stage = "assembling_response",
                     !.errors = Append(@, "Error assembling final response")]
    /\ pc' = "complete"
    /\ UNCHANGED <<attempt, llm_log, handler_taken>>

workflow_complete ==
    /\ UNCHANGED <<parVars, agentVars, search_seen>>
    /\ pc = "complete"
    /\ workflow_metadata' = complete_workflow(workflow_metadata)
    /\ progress' = update_progress(Pct(100))
    /\ pc' = "done"
    /\ UNCHANGED <<attempt, response, llm_log, handler_taken>>

\* An exception raised in a stage's except clause (while the message is
\* formatted from the caught exception) is outside every stage try: it
\* leaves the stage function and reaches the except clause of execute_workflow.
AwaitPcs == {"parser_await", "planner_research", "planner_generate", "suggester_await"}

stage_handler_raises ==
    /\ UNCHANGED <<parVars, agentVars, search_seen>>
    /\ pc \in AwaitPcs
    /\ pc' = "workflow_except"
    /\ UNCHANGED <<attempt, workflow_metadata, response, progress, llm_log,
                   handler_taken>>

workflow_except ==
    /\ UNCHANGED <<parVars, agentVars, search_seen>>
    /\ pc = "workflow_except"
    /\ workflow_metadata' = fail_workflow(workflow_metadata)
    /\ progress' = update_progress(get_completion_percentage(workflow_metadata'))
    /\ handler_taken' = TRUE
    /\ pc' = "done"
    /\ UNCHANGED <<attempt, response, llm_log>>

SeqNext ==
    \/ execute_workflow
    \/ parser_enter \/ parser_try \/ parser_return \/ parser_timeout
    \/ parser_exception \/ parser_sleep
    \/ gate_planner
    \/ planner_enter \/ planner_try \/ planner_research_return \/ planner_timeout
    \/ planner_generate_return \/ planner_generate_raise \/ planner_sleep
    \/ gate_suggester
    \/ suggester_enter \/ suggester_try \/ suggester_return \/ suggester_timeout
    \/ suggester_exception \/ suggester_sleep
    \/ assemble_final_response \/ workflow_complete
    \/ stage_handler_raises \/ workflow_except

(***************************************************************************)
(* The agents taken alone (request_parser.py, activities_planner.py): idle *)
(* while a workflow is the system under study                              *)
(***************************************************************************)
\* a null duration / travelers / amount of a reply or of collected_data;
\* Python tests these fields by truth value, for which None and 0 agree
Null == 0

NoBudget == [total_amount |-> Null, currency |-> None, accommodation_type |-> None]

\* CoreTravelRequest(): the collected data of a new ConversationManager
CoreTravelRequest ==
    [destination |-> None, duration |-> Null, travelers |-> Null, budget |-> NoBudget,
     needs_disambiguation |-> None, parse_error |-> None, is_complete |-> FALSE]

NoReply ==
    [kind |-> "none", destination |-> None, duration |-> Null, travelers |-> Null,
     budget |-> NoBudget, needs_disambiguation |-> None, parse_error |-> None,
     is_complete |-> FALSE]

NoTierArgs == [total_budget |-> 0, travelers_count |-> 1, duration |-> 1, currency |-> None]

ConvIdle == collected_data = CoreTravelRequest /\ llm_response = NoReply /\ returned = NoReply

TierIdle == tier_args = <<NoTierArgs, NoTierArgs>> /\ tier_result = <<None, None>>

PlanIdle ==
    /\ activities = <<>>
    /\ trip_duration = 1
    /\ plan_pc = "idle"
    /\ day = 0
    /\ daily_itineraries = <<>>

\* no call of suggest_accommodations is under way
NoItineraryOutput == [total_budget |-> <<>>, duration_days |-> 1, must_visit_places |-> 0]

NoBudgetInfo == [total_budget |-> 0, currency |-> None, duration_days |-> 1]

\* a budget_categories dict without any band
NoCategories == [band \in {} |-> [min |-> 0, max |-> 0]]

AccIdle ==
    /\ acc_pc = "idle"
    /\ acc_itinerary = NoItineraryOutput
    /\ budget_info = NoBudgetInfo
    /\ key_activity_areas = 0
    /\ budget_categories = NoCategories
    /\ budget_tier = None
    /\ hotels = <<>>
    /\ acc_failed = {}
    /\ acc_result = None

FanIdle ==
    /\ fan_pc = "idle"
    /\ search_tasks = <<>>
    /\ completion_order = <<>>
    /\ all_results = <<>>

AgentIdle == ConvIdle /\ TierIdle /\ PlanIdle /\ AccIdle /\ FanIdle

(***************************************************************************)
(* travel_workflow.py (parallel variant): idle in the sequential model     *)
(***************************************************************************)
NoRequest == [currency |-> None]

NoResponse == [kind |-> "none", itinerary |-> None, accommodations |-> None,
               final_cost_estimate |-> None, success |-> FALSE,
               partial_results |-> FALSE, errors |-> <<>>]

ParIdle ==
    /\ ppc = "idle"
    /\ interactive = FALSE
    /\ conversation_turn = 0
    /\ travel_request = NoRequest
    /\ current_currency = None
    /\ metrics = {}
    /\ task = [t \in {"activities", "accommodation"} |-> [pc |-> "idle", result |-> None]]
    /\ presponse = NoResponse

Init == SeqInit /\ ParIdle /\ AgentIdle

Next == SeqNext

Spec == Init /\ [][Next]_vars

\* The event loop runs every coroutine that can run: each await of the
\* workflow ends (by a result, an exception or the wait_for timeout).
FairSpec == Init /\ [][Next]_vars /\ WF_vars(Next)

(***************************************************************************)
(* travel_workflow.py: the parallel workflow                               *)
(*   generate_itinerary = request parsing, then ActivitiesPlanner and      *)
(*   AccommodationSuggester as two asyncio tasks, then _create_final_response *)
(***************************************************************************)
Tasks == {"activities", "accommodation"}

MaxConversationTurns == 10

\* currencies a request's budget is given in
Currencies == {"INR", "USD", "EUR"}

\* the methods class AccommodationSuggester defines
AccommodationSuggesterMethods ==
    {"__init__", "_initialize_tavily_search", "_initialize_llm_agent",
     "suggest_accommodations", "_extract_budget_info", "_analyze_activity_locations",
     "_fallback_location_analysis", "_research_budget_categories",
     "_fallback_budget_categories", "_classify_budget_tier", "_execute_search",
     "_search_hotels_by_location", "_extract_hotels_with_llm",
     "_fallback_hotel_extraction", "_format_accommodation_options"}

\* the fields of dataclass AccommodationOutput (none has a default)
AccommodationOutputFields ==
    {"destination", "duration_days", "budget_allocated", "budget_category",
     "nightly_budget_range", "key_activity_areas", "accommodation_options"}

\* the fields of dataclass ItineraryOutput, and those without a default
ItineraryOutputFields ==
    {"destination", "duration_days", "total_budget", "accommodation_type",
     "must_visit_places", "daily_itineraries", "total_estimated_cost",
     "recommendations"}

ItineraryOutputRequired ==
    ItineraryOutputFields \ {"total_estimated_cost", "recommendations"}

\* a dataclass constructor raises TypeError for an unknown keyword and for a
\* missing required field
DataclassAccepts(fields, required, keywords) ==
    /\ keywords \subseteq fields
    /\ required \subseteq keywords

\* _create_fallback_itinerary: ItineraryOutput(...) with these keywords
create_fallback_itinerary ==
    IF DataclassAccepts(ItineraryOutputFields, ItineraryOutputRequired,
           {"destination", "duration_days", "total_budget", "accommodation_type",
            "must_visit_places", "daily_itineraries", "total_estimated_cost",
            "recommendations"})
    THEN "fallback_itinerary" ELSE "TypeError"

\* _create_fallback_accommodations: AccommodationOutput(...) with these keywords
create_fallback_accommodations ==
    IF DataclassAccepts(AccommodationOutputFields, AccommodationOutputFields,
           {"destination", "search_date", "budget_range", "traveler_count",
            "children_count", "accommodation_suggestions", "family_considerations",
            "search_summary", "recommendations"})
    THEN "fallback_accommodations" ELSE "TypeError"

\* _handle_workflow_error
handle_workflow_error(error) ==
    [kind |-> "response", itinerary |-> None, accommodations |-> None,
     final_cost_estimate |-> None, success |-> FALSE, partial_results |-> FALSE,
     errors |-> <<"Workflow failed: " \o error>>]

\* raise IncompleteRequestException, re-raised by generate_itinerary
IncompleteRequestException == [NoResponse EXCEPT !.kind = "IncompleteRequestException"]

\* _estimate_total_cost: the currency sign of the amount, read from
\* self._current_currency
estimate_total_cost(currency) == currency \o " amount (approx.)"

\* _create_final_response: a branch's exception is replaced by its fallback;
\* an exception raised while doing so leaves generate_itinerary through its
\* except clause, which returns _handle_workflow_error
create_final_response(itinerary_result, accommodation_result, currency) ==
    LET itinerary_output == IF itinerary_result = "exception"
                            THEN create_fallback_itinerary ELSE itinerary_result
        accommodation_output == IF accommodation_result = "exception"
                                THEN create_fallback_accommodations
                                ELSE accommodation_result
        errors == (IF itinerary_result = "exception"
                   THEN <<"Activities planning failed">> ELSE <<>>)
                  \o (IF accommodation_result = "exception"
                      THEN <<"Accommodation search failed">> ELSE <<>>)
    IN IF "TypeError" \in {itinerary_output, accommodation_output}
       THEN handle_workflow_error("TypeError")
       ELSE [kind |-> "response", itinerary |-> itinerary_output,
             accommodations |-> accommodation_output,
             final_cost_estimate |-> IF errors = <<>>
                                     THEN estimate_total_cost(currency) ELSE None,
             success |-> errors = <<>>, partial_results |-> errors # <<>>,
             errors |-> errors]

\* get_final_request returns asdict(collected_data): a dict
get_final_request == "dict"

ParInit ==
    /\ SeqInit
    /\ ppc = "start"
    /\ interactive \in BOOLEAN
    /\ conversation_turn = 0
    /\ travel_request = NoRequest
    /\ current_currency = None
    /\ metrics = {}
    /\ task = [t \in Tasks |-> [pc |-> "idle", result |-> None]]
    /\ presponse = NoResponse
    /\ AgentIdle

\* the dict start_conversation / continue_conversation returned, of which the
\* workflow reads is_complete
parser_response(complete_reply) ==
    [NoReply EXCEPT !.kind = "response", !.is_complete = complete_reply]

\* generate_itinerary calls _handle_request_parsing, which awaits
\* start_conversation
par_start ==
    /\ UNCHANGED <<seqVars, agentVars>>
    /\ ppc = "start"
    /\ ppc' = "parsing"
    /\ UNCHANGED <<interactive, conversation_turn, travel_request,
                   current_currency, metrics, task, presponse>>

\* _handle_request_parsing after start_conversation: a complete reply is
\* converted from the dict (converts is FALSE when the dict lacks travelers
\* or the accommodation type, which raises); an incomplete one raises
\* IncompleteRequestException or opens the interactive conversation
par_request_parsed ==
    /\ UNCHANGED <<seqVars, collected_data, llm_response, tierVars, planVars, accVars, fanVars>>
    /\ ppc = "parsing"
    /\ \E llm \in ParserLLM \ {"hang"}, converts \in BOOLEAN, currency \in Currencies :
        /\ returned' = parser_response(start_conversation(llm))
        /\ IF start_conversation(llm)
           THEN IF converts
                THEN /\ travel_request' = [currency |-> currency]
                     /\ current_currency' = currency
                     /\ metrics' = metrics \cup {"parsing_time"}
                     /\ ppc' = "create_tasks"
                     /\ UNCHANGED <<conversation_turn, presponse>>
                ELSE /\ presponse' = handle_workflow_error("Request parsing failed")
                     /\ metrics' = metrics \cup {"total_time"}
                     /\ ppc' = "returned"
                     /\ UNCHANGED <<conversation_turn, travel_request, current_currency>>
           ELSE IF ~interactive
                THEN /\ presponse' = IncompleteRequestException
                     /\ ppc' = "raised"
                     /\ UNCHANGED <<conversation_turn, travel_request,
                                    current_currency, metrics>>
                ELSE /\ conversation_turn' = 1
                     /\ ppc' = "conversation"
                     /\ UNCHANGED <<travel_request, current_currency, metrics, presponse>>
    /\ UNCHANGED <<interactive, task>>

\* one pass of the while loop of _handle_interactive_conversation: the answer
\* is processed, the turn counted and tested; a complete reply leaves the
\* loop, where final_request.budget is read from what get_final_request
\* returned.  Every exception becomes a WorkflowException and then the
\* error response of generate_itinerary.
par_conversation_turn ==
    /\ UNCHANGED <<seqVars, collected_data, llm_response, tierVars, planVars, accVars, fanVars>>
    /\ ppc = "conversation"
    /\ \E complete_reply \in BOOLEAN, currency \in Currencies :
        /\ returned' = parser_response(complete_reply)
        /\ conversation_turn' = conversation_turn + 1
        /\ IF conversation_turn' > MaxConversationTurns
           THEN /\ presponse' = handle_workflow_error("Too many conversation turns")
                /\ metrics' = metrics \cup {"total_time"}
                /\ ppc' = "returned"
                /\ UNCHANGED <<travel_request, current_currency>>
           ELSE IF ~complete_reply
           THEN UNCHANGED <<ppc, travel_request, current_currency, metrics, presponse>>
           ELSE IF get_final_request = "dict"
           THEN /\ presponse' = handle_workflow_error("Request parsing failed")
                /\ metrics' = metrics \cup {"total_time"}
                /\ ppc' = "returned"
                /\ UNCHANGED <<travel_request, current_currency>>
           ELSE /\ travel_request' = [currency |-> currency]
                /\ current_currency' = currency
                /\ metrics' = metrics \cup {"parsing_time"}
                /\ ppc' = "create_tasks"
                /\ UNCHANGED presponse
    /\ UNCHANGED <<interactive, task>>

\* _execute_parallel_agents: create both tasks, then await gather
par_create_tasks ==
    /\ UNCHANGED <<seqVars, agentVars>>
    /\ ppc = "create_tasks"
    /\ task' = [t \in Tasks |-> [pc |-> "created", result |-> None]]
    /\ ppc' = "gather"
    /\ UNCHANGED <<interactive, conversation_turn, travel_request,
                   current_currency, metrics, presponse>>

\* _handle_activities_planning up to its first await
activities_start ==
    /\ UNCHANGED <<seqVars, agentVars>>
    /\ task["activities"].pc = "created"
    /\ task' = [task EXCEPT !["activities"].pc = "research"]
    /\ UNCHANGED <<ppc, interactive, conversation_turn, travel_request,
                   current_currency, metrics, presponse>>

\* research_destination returned; another status than "success" is raised
\* and wrapped in ActivitiesPlanningException
activities_research_return ==
    /\ UNCHANGED <<seqVars, agentVars>>
    /\ task["activities"].pc = "research"
    /\ \E llm \in AgentLLM \ {"hang"} :
        LET r == research_destination(llm)
        IN IF r.status # "success"
           THEN /\ task' = [task EXCEPT !["activities"] =
                               [pc |-> "done", result |-> "exception"]]
                /\ metrics' = metrics \cup {"activities_time"}
           ELSE /\ task' = [task EXCEPT !["activities"] =
                               [pc |-> "generate", result |-> r.must_visit_places]]
                /\ UNCHANGED metrics
    /\ UNCHANGED <<ppc, interactive, conversation_turn, travel_request,
                   current_currency, presponse>>

\* generate_itinerary of the planner returned or raised
activities_generate_return ==
    /\ UNCHANGED <<seqVars, agentVars>>
    /\ task["activities"].pc = "generate"
    /\ \E raises \in BOOLEAN :
        task' = [task EXCEPT !["activities"] =
                    [pc |-> "done",
                     result |-> IF raises THEN "exception"
                                ELSE IF @.result = "places" THEN "itinerary"
                                ELSE "itinerary_without_places"]]
    /\ metrics' = metrics \cup {"activities_time"}
    /\ UNCHANGED <<ppc, interactive, conversation_turn, travel_request,
                   current_currency, presponse>>

\* _handle_accommodation_search: the call of find_accommodations; every
\* exception is wrapped in AccommodationSearchException
accommodation_run ==
    /\ UNCHANGED <<seqVars, agentVars>>
    /\ task["accommodation"].pc = "created"
    /\ task' = [task EXCEPT !["accommodation"] =
                   [pc |-> "done",
                    result |-> IF "find_accommodations" \in AccommodationSuggesterMethods
                               THEN "accommodations" ELSE "exception"]]
    /\ metrics' = metrics \cup {"accommodation_time"}
    /\ UNCHANGED <<ppc, interactive, conversation_turn, travel_request,
                   current_currency, presponse>>

\* gather(return_exceptions=True) returns once both tasks are done;
\* _create_final_response builds what generate_itinerary returns
par_gather_and_respond ==
    /\ UNCHANGED <<seqVars, agentVars>>
    /\ ppc = "gather"
    /\ \A t \in Tasks : task[t].pc = "done"
    /\ presponse' = create_final_response(task["activities"].result,
                                          task["accommodation"].result,
                                          current_currency)
    /\ metrics' = metrics \cup {"parallel_time", "total_time"}
                  \cup (IF presponse'.success \/ presponse'.partial_results
                        THEN {"assembly_time"} ELSE {})
    /\ ppc' = "returned"
    /\ UNCHANGED <<interactive, conversation_turn, travel_request,
                   current_currency, task>>

ParNext ==
    \/ par_start \/ par_request_parsed \/ par_conversation_turn
    \/ par_create_tasks
    \/ activities_start \/ activities_research_return \/ activities_generate_return
    \/ accommodation_run
    \/ par_gather_and_respond

ParSpec == ParInit /\ [][ParNext]_vars

(***************************************************************************)
(* request_parser.py: ConversationManager and RequestParserAgent           *)
(***************************************************************************)
\* AccommodationType
AccommodationType == {"budget", "mid-range", "luxury"}

\* ConversationManager.ambiguous_destinations (one of the ten names suffices)
ambiguous_destinations == {"Paris"}

\* destinations a reply can carry: an unambiguous one and an ambiguous one
Destinations == {"Goa", "Paris"}

\* validation_rules
MinDuration == 1

MaxDuration == 365

MinBudget == 1

validate_duration_mutant(dur) == MinDuration <= dur
validate_duration(dur) == MinDuration <= dur /\ dur <= MaxDuration

validate_budget(budget_amount) == budget_amount >= MinBudget

\* check_destination_disambiguation: a question when the name is on the list
check_destination_disambiguation(destination) ==
    IF destination \in ambiguous_destinations THEN "which_country" ELSE None

\* str.upper on the currency codes of the model
upper(currency) ==
    CASE currency = "usd" -> "USD"
      [] OTHER -> currency

\* determine_accommodation_type: total_budget / (travelers_count * duration)
\* against the thresholds of the currency; x / n < t is x < t * n for n > 0
Thresholds(currency) ==
    CASE upper(currency) = "USD" -> [low |-> 50, high |-> 150]
      [] upper(currency) = "INR" -> [low |-> 4000, high |-> 12000]
      [] upper(currency) = "EUR" -> [low |-> 45, high |-> 135]
      [] OTHER -> [low |-> 0, high |-> 0]

determine_accommodation_type_mutant(total_budget, travelers_count, duration, currency) ==
    LET t == Thresholds(currency)
    IN IF upper(currency) \notin {"USD", "INR", "EUR"} THEN "mid-range"
       ELSE IF total_budget < t.low * travelers_count THEN "budget"
       ELSE IF total_budget <= t.high * travelers_count THEN "mid-range"
       ELSE "luxury"
determine_accommodation_type(total_budget, travelers_count, duration, currency) ==
    LET person_days == travelers_count * duration
        t == Thresholds(currency)
    IN IF upper(currency) \notin {"USD", "INR", "EUR"} THEN "mid-range"
       ELSE IF total_budget < t.low * person_days THEN "budget"
       ELSE IF total_budget <= t.high * person_days THEN "mid-range"
       ELSE "luxury"

\* get_missing_fields
get_missing_fields(cd) ==
    {f \in {"destination", "duration", "travelers", "budget"} :
        \/ f = "destination" /\ cd.destination = None
        \/ f = "duration" /\ cd.duration = Null
        \/ f = "travelers" /\ cd.travelers = Null
        \/ f = "budget" /\ cd.budget = NoBudget}

\* ConversationManager.is_complete
manager_is_complete(cd) ==
    /\ cd.destination # None
    /\ cd.duration # Null
    /\ cd.travelers # Null
    /\ cd.budget # NoBudget
    /\ cd.needs_disambiguation = None
    /\ cd.parse_error = None
    /\ get_missing_fields(cd) = {}

\* _create_error_response
create_error_response(error_message) ==
    [kind |-> "error", destination |-> None, duration |-> Null, travelers |-> Null,
     budget |-> NoBudget, needs_disambiguation |-> None,
     parse_error |-> error_message, is_complete |-> FALSE]

\* a travelers dict of a reply that lacks one of adults / children / total
BadTravelers == -1

\* what the model can answer in one turn: a JSON object in the asked format
\* (still asking, or saying is_complete with all four fields filled in), text
\* that is not JSON, a JSON object without the required keys, a JSON string
\* that contains the required keys, or an exception of the call
JsonReplies ==
    [kind : {"json"},
     destination : Destinations \cup {None},
     duration : {Null, 1, MaxDuration, MaxDuration + 1},
     travelers : {Null, 1, BadTravelers},
     budget : {NoBudget} \cup
              [total_amount : {0, 200}, currency : {"USD"}, accommodation_type : {None}],
     needs_disambiguation : {None, "which_country"},
     parse_error : {None},
     is_complete : {FALSE}]

CompleteReplies ==
    [kind : {"json"},
     destination : Destinations,
     duration : {1, MaxDuration + 1},
     travelers : {1},
     budget : [total_amount : {0, 200}, currency : {"USD"}, accommodation_type : {None}],
     needs_disambiguation : {None},
     parse_error : {None},
     is_complete : {TRUE}]

LLMReplies ==
    JsonReplies \cup CompleteReplies \cup {[NoReply EXCEPT !.kind = k] :
                        k \in {"not_json", "missing_keys", "json_string", "raise"}}

process_with_llm_mutant(reply) ==
    IF reply.kind = "raise" THEN create_error_response("error_processing_try_again")
    ELSE reply
\* _process_with_llm: the reply, or an error response in its place
process_with_llm(reply) ==
    CASE reply.kind = "not_json" -> create_error_response("could_not_process_rephrase")
      [] reply.kind = "missing_keys" -> create_error_response("trouble_understanding_rephrase")
      [] reply.kind = "raise" -> create_error_response("error_processing_try_again")
      [] OTHER -> reply

\* _update_conversation_state, statement by statement.  A reply that is not
\* a dict has no .get (AttributeError at the first statement); a travelers
\* dict without one of its keys raises KeyError after destination and
\* duration were stored.  raised tells the caller's except clause ran.
update_destination(cd, r) ==
    IF r.destination # None /\ r.needs_disambiguation = None
    THEN [cd EXCEPT !.destination = r.destination] ELSE cd

update_duration(cd, r) ==
    IF r.duration # Null /\ validate_duration(r.duration)
    THEN [cd EXCEPT !.duration = r.duration] ELSE cd

update_travelers(cd, r) ==
    IF r.travelers # Null THEN [cd EXCEPT !.travelers = r.travelers] ELSE cd

update_budget(cd, r) ==
    IF r.budget # NoBudget /\ validate_budget(r.budget.total_amount)
    THEN [cd EXCEPT !.budget =
             [total_amount |-> r.budget.total_amount,
              currency |-> r.budget.currency,
              accommodation_type |->
                  IF cd.travelers # Null /\ cd.duration # Null
                  THEN determine_accommodation_type(r.budget.total_amount,
                           cd.travelers, cd.duration, r.budget.currency)
                  ELSE None]]
    ELSE cd

update_flags(cd, r) ==
    LET flagged == [cd EXCEPT !.needs_disambiguation = r.needs_disambiguation,
                              !.parse_error = r.parse_error]
    IN [flagged EXCEPT !.is_complete = manager_is_complete(flagged)]

update_conversation_state(cd, r) ==
    IF r.kind = "json_string" THEN [data |-> cd, raised |-> TRUE]
    ELSE LET d2 == update_duration(update_destination(cd, r), r)
         IN IF r.travelers = BadTravelers THEN [data |-> d2, raised |-> TRUE]
            ELSE [data |-> update_flags(update_budget(update_travelers(d2, r), r), r),
                  raised |-> FALSE]

\* _finalize_conversation: fills the accommodation type only when it is unset
finalize_data(cd) ==
    IF cd.budget # NoBudget /\ cd.budget.accommodation_type = None
    THEN [cd EXCEPT !.budget.accommodation_type =
             determine_accommodation_type(cd.budget.total_amount, cd.travelers,
                                          cd.duration, cd.budget.currency)]
    ELSE cd

finalize_response(cd) ==
    [kind |-> "final", destination |-> cd.destination, duration |-> cd.duration,
     travelers |-> cd.travelers, budget |-> cd.budget, needs_disambiguation |-> None,
     parse_error |-> None, is_complete |-> TRUE]

\* start_conversation(initial_input) when the model answers reply
parser_start_conversation(reply) ==
    /\ UNCHANGED <<seqVars, parVars, tierVars, planVars, accVars, fanVars>>
    /\ LET response_ == process_with_llm(reply)
           u == update_conversation_state(collected_data, response_)
       IN /\ llm_response' = reply
          /\ collected_data' = u.data
          /\ returned' = IF u.raised
                         THEN create_error_response("error_try_again")
                         ELSE response_

\* continue_conversation(user_response) when the model answers reply
parser_continue_conversation(reply) ==
    /\ UNCHANGED <<seqVars, parVars, tierVars, planVars, accVars, fanVars>>
    /\ llm_response' = reply
    /\ LET response_ == process_with_llm(reply)
           u == update_conversation_state(collected_data, response_)
       IN IF u.raised
          THEN /\ collected_data' = u.data
               /\ returned' = create_error_response("error_try_again")
          ELSE IF manager_is_complete(u.data)
          THEN /\ collected_data' = finalize_data(u.data)
               /\ returned' = finalize_response(finalize_data(u.data))
          ELSE /\ collected_data' = u.data
               /\ returned' = response_

start_conversation_turn == \E reply \in LLMReplies : parser_start_conversation(reply)

continue_conversation_turn == \E reply \in LLMReplies : parser_continue_conversation(reply)

ConvInit == SeqInit /\ ParIdle /\ AgentIdle

ConvNext == start_conversation_turn \/ continue_conversation_turn

ConvSpec == ConvInit /\ [][ConvNext]_vars

(***************************************************************************)
(* determine_accommodation_type called on two argument lists               *)
(***************************************************************************)
MaxTierTravelers == 2

MaxTierDuration == 2

\* amounts around the thresholds of the three currencies
TierAmounts == {0, 45, 49, 50, 90, 100, 135, 150, 151, 300, 4000, 8000, 12000, 12001}

TierCurrencies == {"USD", "usd", "INR", "EUR", "GBP"}

TierInputs ==
    [total_budget : TierAmounts, travelers_count : 1..MaxTierTravelers,
     duration : 1..MaxTierDuration, currency : TierCurrencies]

TierInit ==
    /\ SeqInit /\ ParIdle /\ ConvIdle /\ PlanIdle /\ AccIdle /\ FanIdle
    /\ tier_args \in TierInputs \X TierInputs
    /\ tier_result = <<None, None>>

tier_of(a) ==
    determine_accommodation_type(a.total_budget, a.travelers_count, a.duration, a.currency)

\* the two calls
determine_accommodation_type_calls ==
    /\ tier_result = <<None, None>>
    /\ tier_result' = <<tier_of(tier_args[1]), tier_of(tier_args[2])>>
    /\ UNCHANGED <<seqVars, parVars, convVars, planVars, accVars, fanVars, tier_args>>

TierNext == determine_accommodation_type_calls

TierSpec == TierInit /\ [][TierNext]_vars

(***************************************************************************)
(* activities_planner.py: _create_daily_itineraries and its fallback       *)
(***************************************************************************)
MaxActivities == 6

MaxTripDuration == 4

Max(a, b) == IF a >= b THEN a ELSE b

Min(a, b) == IF a <= b THEN a ELSE b

\* activities_per_day = max(2, len(activities) // duration)
activities_per_day(acts, duration) == Max(2, Len(acts) \div duration)

\* activities[start_idx:end_idx] of day d (counted from 0)
day_activities(acts, duration, d) ==
    LET start_idx == d * activities_per_day(acts, duration)
        end_idx == Min(start_idx + activities_per_day(acts, duration), Len(acts))
    IN IF start_idx >= end_idx THEN <<>> ELSE SubSeq(acts, start_idx + 1, end_idx)

DayItinerary_mutant(d, acts) == [day_number |-> d, activities |-> acts]
\* DayItinerary(day_number=day + 1, activities=day_activities, ...)
DayItinerary(d, acts) == [day_number |-> d + 1, activities |-> acts]

\* _create_fallback_itinerary: the same slicing, for day in range(duration)
create_fallback_daily_itineraries(acts, duration) ==
    [i \in 1..duration |-> DayItinerary(i - 1, day_activities(acts, duration, i - 1))]

PlanInit ==
    /\ SeqInit /\ ParIdle /\ ConvIdle /\ TierIdle /\ AccIdle /\ FanIdle
    /\ \E n \in 0..MaxActivities : activities = [i \in 1..n |-> i]
    /\ trip_duration \in 1..MaxTripDuration
    /\ plan_pc = "main"
    /\ day = 0
    /\ daily_itineraries = <<>>

\* one pass of the loop for day in range(duration)
plan_day ==
    /\ plan_pc = "main"
    /\ day < trip_duration
    /\ daily_itineraries' = Append(daily_itineraries,
           DayItinerary(day, day_activities(activities, trip_duration, day)))
    /\ day' = day + 1
    /\ UNCHANGED <<seqVars, parVars, convVars, tierVars, accVars, fanVars, activities, trip_duration, plan_pc>>

\* the loop is over: return daily_itineraries
plan_return ==
    /\ plan_pc = "main"
    /\ day = trip_duration
    /\ plan_pc' = "returned"
    /\ UNCHANGED <<seqVars, parVars, convVars, tierVars, accVars, fanVars, activities, trip_duration, day,
                   daily_itineraries>>

\* a statement of the loop body raises (meals, costs or notes of the day):
\* the except clause returns _create_fallback_itinerary, built from scratch
plan_except ==
    /\ plan_pc = "main"
    /\ day < trip_duration
    /\ daily_itineraries' = create_fallback_daily_itineraries(activities, trip_duration)
    /\ plan_pc' = "returned_fallback"
    /\ UNCHANGED <<seqVars, parVars, convVars, tierVars, accVars, fanVars, activities, trip_duration, day>>

PlanNext == plan_day \/ plan_return \/ plan_except

PlanSpec == PlanInit /\ [][PlanNext]_vars

(***************************************************************************)
(* accommodation_suggester.py: one call of suggest_accommodations          *)
(***************************************************************************)
MaxAccDuration == 3

MaxPlaces == 5

MaxHotels == 4

\* float(): the texts it accepts, with their values
float == [text \in {"500", "8750", "25000", "60000"} |->
             CASE text = "500" -> 500
               [] text = "8750" -> 8750
               [] text = "25000" -> 25000
               [] text = "60000" -> 60000]

AccAmounts == DOMAIN float

AccCurrencies == {"INR", "USD", "EUR"}

\* itinerary_output.total_budget.split(): "25000 INR" gives <<"25000", "INR">>;
\* a text without currency gives one part, a text that does not start with
\* a number gives a first part float() rejects
TotalBudgets ==
    {<<amount, currency>> : amount \in AccAmounts, currency \in AccCurrencies}
        \cup {<<"25000">>, <<"about", "25000", "INR">>}

ItineraryOutputs ==
    [total_budget : TotalBudgets, duration_days : 1..MaxAccDuration,
     must_visit_places : 0..MaxPlaces]

Band(lo, hi) == [min |-> lo, max |-> hi]

\* what each model call of the pipeline answers: "fail" is a call that raises,
\* a text that is not JSON, or JSON without the key the step reads
LocationReplies == {[kind |-> "fail", areas |-> 0]}
                       \cup [kind : {"json"}, areas : {2, 4, 5}]

CategoryReplies ==
    {[kind |-> "fail", categories |-> NoCategories],
     [kind |-> "json", categories |->
         [low |-> Band(20, 60), medium |-> Band(60, 150), high |-> Band(150, 500)]],
     [kind |-> "json", categories |->
         [low |-> Band(2000, 3500), high |-> Band(8000, 25000)]],
     [kind |-> "json", categories |-> NoCategories]}

\* the "hotels" array of the reply: any number of hotels, one of which may
\* carry a price_per_night that float() rejects
HotelLists ==
    {[i \in 1..n |-> "hotel"] : n \in 0..MaxHotels} \cup {<<"hotel", "bad_price">>}

HotelReplies == {[kind |-> "fail", hotels |-> <<>>]} \cup [kind : {"json"}, hotels : HotelLists]

\* _extract_budget_info: float(budget_parts[0]), budget_parts[1]; any failure
\* is re-raised as ValueError.  accommodation_budget = total_budget * 0.4 and
\* nightly_budget = accommodation_budget / duration_days are kept as the
\* exact quotient 2 * total_budget / (5 * duration_days).
extract_budget_info(io) ==
    IF Len(io.total_budget) < 2 \/ io.total_budget[1] \notin DOMAIN float
    THEN [raised |-> TRUE, info |-> NoBudgetInfo]
    ELSE [raised |-> FALSE,
          info |-> [total_budget |-> float[io.total_budget[1]], currency |-> io.total_budget[2],
                    duration_days |-> io.duration_days]]

\* nightly_budget <= limit, for nightly_budget = total_budget * 0.4 / duration_days
nightly_at_most(info, limit) == 2 * info.total_budget <= 5 * info.duration_days * limit

\* _fallback_location_analysis: list(areas)[:4] of the places' areas
fallback_location_analysis(io) == Min(io.must_visit_places, 4)

\* _analyze_activity_locations: the reply's areas cut to 4, or the fallback
analyze_activity_locations(io, reply) ==
    IF reply.kind = "json" THEN Min(reply.areas, 4) ELSE fallback_location_analysis(io)

\* _fallback_budget_categories
fallback_budget_categories(currency) ==
    IF currency = "INR"
    THEN [low |-> Band(1500, 3500), medium |-> Band(3500, 8000), high |-> Band(8000, 25000)]
    ELSE IF currency = "USD"
    THEN [low |-> Band(25, 75), medium |-> Band(75, 200), high |-> Band(200, 600)]
    ELSE [low |-> Band(30, 80), medium |-> Band(80, 200), high |-> Band(200, 500)]

\* _research_budget_categories: the reply's budget_categories as they are
research_budget_categories(currency, reply) ==
    IF reply.kind = "json" THEN reply.categories ELSE fallback_budget_categories(currency)

\* the dict has the keys
has_bands(categories, keys) == keys \subseteq DOMAIN categories

classify_budget_tier_mutant(info, categories) ==
    IF ~has_bands(categories, {"low", "medium"}) THEN "medium"
    ELSE IF ~nightly_at_most(info, categories.low.max) THEN
        IF nightly_at_most(info, categories.medium.max) THEN "medium" ELSE "high"
    ELSE IF 2 * info.total_budget = 5 * info.duration_days * categories.low.max
         THEN "medium" ELSE "low"
\* _classify_budget_tier: a missing band raises KeyError, caught: "medium"
classify_budget_tier(info, categories) ==
    IF ~has_bands(categories, {"low", "medium"}) THEN "medium"
    ELSE IF nightly_at_most(info, categories.low.max) THEN "low"
    ELSE IF nightly_at_most(info, categories.medium.max) THEN "medium"
    ELSE "high"

\* _fallback_hotel_extraction: one "Sample ... Hotel"
fallback_hotel_extraction == <<"sample">>

\* _extract_hotels_with_llm: result.get("hotels", []), or the fallback
extract_hotels_with_llm(reply) ==
    IF reply.kind = "json" THEN reply.hotels ELSE fallback_hotel_extraction

\* _search_hotels_by_location: budget_categories[budget_tier] is read inside
\* the try, so a missing band returns []
search_hotels_by_location(tier, categories, reply) ==
    IF ~has_bands(categories, {tier}) THEN <<>> ELSE extract_hotels_with_llm(reply)

\* _format_accommodation_options: one option per hotel; an exception in the
\* loop returns []
format_accommodation_options(hs) ==
    IF \E i \in 1..Len(hs) : hs[i] = "bad_price" THEN <<>> ELSE hs

AccInit ==
    /\ SeqInit /\ ParIdle /\ ConvIdle /\ TierIdle /\ PlanIdle /\ FanIdle
    /\ acc_pc = "extract"
    /\ acc_itinerary \in ItineraryOutputs
    /\ budget_info = NoBudgetInfo
    /\ key_activity_areas = 0
    /\ budget_categories = NoCategories
    /\ budget_tier = None
    /\ hotels = <<>>
    /\ acc_failed = {}
    /\ acc_result = None

AccFrame ==
    UNCHANGED <<seqVars, parVars, convVars, tierVars, planVars, fanVars, acc_itinerary>>

\* Step 1; its ValueError reaches the except of suggest_accommodations,
\* which re-raises
acc_extract_budget_info ==
    /\ acc_pc = "extract"
    /\ LET r == extract_budget_info(acc_itinerary)
       IN IF r.raised
          THEN /\ acc_pc' = "raised"
               /\ acc_result' = "ValueError"
               /\ acc_failed' = acc_failed \cup {"budget_extraction"}
               /\ UNCHANGED budget_info
          ELSE /\ acc_pc' = "analyze"
               /\ budget_info' = r.info
               /\ UNCHANGED <<acc_result, acc_failed>>
    /\ UNCHANGED <<key_activity_areas, budget_categories, budget_tier, hotels>>
    /\ AccFrame

\* Step 2
acc_analyze_activity_locations ==
    /\ acc_pc = "analyze"
    /\ \E reply \in LocationReplies :
        /\ key_activity_areas' = analyze_activity_locations(acc_itinerary, reply)
        /\ acc_failed' = IF reply.kind = "fail"
                         THEN acc_failed \cup {"location_clustering"} ELSE acc_failed
    /\ acc_pc' = "research"
    /\ UNCHANGED <<budget_info, budget_categories, budget_tier, hotels, acc_result>>
    /\ AccFrame

\* Step 3; the search results only enter the prompt
acc_research_budget_categories ==
    /\ acc_pc = "research"
    /\ \E reply \in CategoryReplies :
        /\ budget_categories' = research_budget_categories(budget_info.currency, reply)
        /\ acc_failed' = IF reply.kind = "fail"
                         THEN acc_failed \cup {"budget_research"} ELSE acc_failed
    /\ acc_pc' = "classify"
    /\ UNCHANGED <<budget_info, key_activity_areas, budget_tier, hotels, acc_result>>
    /\ AccFrame

\* Step 4
acc_classify_budget_tier ==
    /\ acc_pc = "classify"
    /\ budget_tier' = classify_budget_tier(budget_info, budget_categories)
    /\ acc_failed' = IF ~has_bands(budget_categories, {"low", "medium"})
                     THEN acc_failed \cup {"tier_classification"} ELSE acc_failed
    /\ acc_pc' = "search"
    /\ UNCHANGED <<budget_info, key_activity_areas, budget_categories, hotels, acc_result>>
    /\ AccFrame

\* Step 5
acc_search_hotels_by_location ==
    /\ acc_pc = "search"
    /\ \E reply \in HotelReplies :
        /\ hotels' = search_hotels_by_location(budget_tier, budget_categories, reply)
        /\ acc_failed' = IF ~has_bands(budget_categories, {budget_tier}) \/ reply.kind = "fail"
                         THEN acc_failed \cup {"hotel_search"} ELSE acc_failed
    /\ acc_pc' = "format"
    /\ UNCHANGED <<budget_info, key_activity_areas, budget_categories, budget_tier, acc_result>>
    /\ AccFrame

\* Step 6: AccommodationOutput(...); nightly_budget_range reads
\* budget_categories[budget_tier]['min'] outside any inner try
acc_return ==
    /\ acc_pc = "format"
    /\ IF ~has_bands(budget_categories, {budget_tier})
       THEN /\ acc_pc' = "raised"
            /\ acc_result' = "KeyError"
       ELSE /\ acc_pc' = "returned"
            /\ acc_result' =
                 [budget_category |-> budget_tier,
                  nightly_budget_range |-> budget_categories[budget_tier],
                  key_activity_areas |-> key_activity_areas,
                  accommodation_options |-> format_accommodation_options(hotels)]
    /\ UNCHANGED <<budget_info, key_activity_areas, budget_categories, budget_tier, hotels,
                   acc_failed>>
    /\ AccFrame

AccNext ==
    \/ acc_extract_budget_info
    \/ acc_analyze_activity_locations
    \/ acc_research_budget_categories
    \/ acc_classify_budget_tier
    \/ acc_search_hotels_by_location
    \/ acc_return

AccSpec == AccInit /\ [][AccNext]_vars

(***************************************************************************)
(* The fan-out search of an agent step: _search_must_visit_places and      *)
(* _search_hotels_by_location gather their _execute_search coroutines      *)
(***************************************************************************)
\* len(search_queries) of _search_must_visit_places
PlaceQueries == 4

\* len(search_queries) of _search_hotels_by_location
HotelQueries == 3

MaxResults == 2

Pending == [how |-> "pending", result |-> <<>>]

\* the results of query q: items tagged by their query
SearchResults(q) == {[k \in 1..n |-> <<q, k>>] : n \in 1..MaxResults}

\* How the coroutine of query q ends.  _execute_search returns the client's
\* results (possibly none); it catches what the client raises and returns [];
\* a cancelled coroutine leaves its exception in the slot of gather
\* (return_exceptions=True).
execute_search(q) ==
    [how : {"returned"}, result : SearchResults(q) \cup {<<>>}]
        \cup {[how |-> "client_raised", result |-> <<>>],
              [how |-> "exception", result |-> <<>>]}

gather_mutant(tasks, order) == [k \in 1..Len(tasks) |-> tasks[order[k]]]
\* asyncio.gather(*search_tasks, return_exceptions=True): the slots in the
\* order of the awaitables, whatever the order of completion
gather(tasks, order) == tasks

\* the loop over results: a non-empty list extends all_results, an exception
\* or an empty list is logged
RECURSIVE extend_all(_)
extend_all(results) ==
    IF results = <<>> THEN <<>>
    ELSE (IF Head(results).how = "exception" THEN <<>> ELSE Head(results).result)
             \o extend_all(Tail(results))

FanInit ==
    /\ SeqInit /\ ParIdle /\ ConvIdle /\ TierIdle /\ PlanIdle /\ AccIdle
    /\ fan_pc = "gather"
    /\ \E n \in {HotelQueries, PlaceQueries} : search_tasks = [q \in 1..n |-> Pending]
    /\ completion_order = <<>>
    /\ all_results = <<>>

FanFrame == UNCHANGED <<seqVars, parVars, convVars, tierVars, planVars, accVars>>

\* one of the pending coroutines ends
search_task_done ==
    /\ fan_pc = "gather"
    /\ \E q \in 1..Len(search_tasks) :
        /\ search_tasks[q] = Pending
        /\ \E outcome \in execute_search(q) :
              search_tasks' = [search_tasks EXCEPT ![q] = outcome]
        /\ completion_order' = Append(completion_order, q)
    /\ UNCHANGED <<fan_pc, all_results>>
    /\ FanFrame

\* all coroutines ended: gather returns and the loop builds all_results
gather_return ==
    /\ fan_pc = "gather"
    /\ Len(completion_order) = Len(search_tasks)
    /\ all_results' = extend_all(gather(search_tasks, completion_order))
    /\ fan_pc' = "aggregated"
    /\ UNCHANGED <<search_tasks, completion_order>>
    /\ FanFrame

FanNext == search_task_done \/ gather_return

FanSpec == FanInit /\ [][FanNext]_vars

(***************************************************************************)
(* Properties of the sequential workflow                                   *)
(***************************************************************************)
Status(a) == workflow_metadata[a].status

Returned == pc = "done"

\* C1: ActivitiesPlanner is never started before RequestParser is COMPLETED
\* and response.parsed_request is set; AccommodationSuggester is never started
\* before ActivitiesPlanner is COMPLETED and response.itinerary is set.
C1_StagesStartAfterPredecessor ==
    /\ Status("activities_planner") # "pending" =>
          /\ Status("request_parser") = "completed"
          /\ response.parsed_request # None
    /\ Status("accommodation_suggester") # "pending" =>
          /\ Status("activities_planner") = "completed"
          /\ response.itinerary # None

C1_Witness ==
    /\ Status("accommodation_suggester") = "running"
    /\ Status("activities_planner") = "completed"
    /\ Status("request_parser") = "completed"

\* C2: once a stage has ended FAILED no downstream agent is started; the
\* workflow still assembles the response and returns it, and a response field
\* that a stage has populated is never cleared or replaced.
C2_NoDownstreamAfterFailure ==
    /\ Status("request_parser") = "failed" =>
          /\ Status("activities_planner") = "pending"
          /\ Status("accommodation_suggester") = "pending"
    /\ Status("activities_planner") = "failed" =>
          Status("accommodation_suggester") = "pending"

C2_AssembledAfterFailure ==
    (Returned /\ \E a \in Agents : Status(a) = "failed") =>
        /\ response.summary # None
        /\ workflow_metadata.current_stage = "completed"
        /\ Status("request_parser") = "completed" => response.parsed_request # None
        /\ Status("activities_planner") = "completed" => response.itinerary # None

C2_FieldsKept ==
    \A f \in {"parsed_request", "itinerary", "accommodations"} :
        response[f] # None => response'[f] = response[f]

C2_FailedStageSkipsDownstream ==
    /\ [](C2_NoDownstreamAfterFailure /\ C2_AssembledAfterFailure)
    /\ [][C2_FieldsKept]_vars

C2_Witness ==
    /\ Returned
    /\ Status("activities_planner") = "failed"
    /\ Status("accommodation_suggester") = "pending"
    /\ response.parsed_request # None
    /\ response.summary # None

\* C3: every stage makes at most max_retries + 1 attempts; timeouts and
\* exceptions count against the same retry_count, which never exceeds
\* max_retries; an agent is FAILED only after max_retries + 1 failed attempts.
C3_BoundedRetries ==
    \A a \in Agents :
        /\ workflow_metadata[a].retry_count <= max_retries
        /\ attempt[a] <= max_retries
        /\ Len(llm_log[a]) <= max_retries + 1
        /\ workflow_metadata[a].retry_count \in {attempt[a], attempt[a] + 1}
        /\ Status(a) = "failed" =>
              /\ Len(llm_log[a]) = max_retries + 1
              /\ attempt[a] = max_retries
              /\ workflow_metadata[a].retry_count = max_retries

\* a stage that failed on one timeout and two exceptions
C3_Witness ==
    /\ Status("accommodation_suggester") = "failed"
    /\ llm_log["accommodation_suggester"] = <<"hang", "bad_shape", "bad_shape">>
    /\ workflow_metadata["accommodation_suggester"].retry_count = max_retries

\* C4: whenever a stage has ended FAILED, by a timeout or by an exception,
\* the agent's error_message is set and workflow_metadata.errors holds an
\* entry for that failure.
C4_FailureRecordedInErrors ==
    \A a \in Agents :
        Status(a) = "failed" =>
            /\ workflow_metadata[a].error_message # None
            /\ \E i \in 1..Len(workflow_metadata.errors) :
                  workflow_metadata.errors[i] \in {ErrorText[a], TimeoutText[a]}

\* C5: a stage whose language-model call failed on every attempt has been
\* retried max_retries times and is FAILED when the workflow returns.
AllModelCallsRaised(a) ==
    /\ Len(llm_log[a]) > 0
    /\ \A i \in 1..Len(llm_log[a]) : llm_log[a][i] = "raise"

C5_ModelFailureFailsStage ==
    Returned =>
        \A a \in Agents :
            AllModelCallsRaised(a) =>
                /\ Status(a) = "failed"
                /\ workflow_metadata[a].retry_count = max_retries

\* C6: when execute_workflow returns every agent record is completed, failed
\* or skipped, and an agent that was not run is skipped.
C6_TerminalStatusOnReturn ==
    Returned =>
        \A a \in Agents :
            /\ Status(a) \in {"completed", "failed", "skipped"}
            /\ Len(llm_log[a]) = 0 => Status(a) = "skipped"

\* C7 (as claimed): the accommodation stage raised on every attempt after two
\* successful stages; the response then has the itinerary, a canned fallback
\* as accommodations, has_errors() and is_partial().
SuggesterRaisedEveryAttempt ==
    /\ Status("request_parser") = "completed"
    /\ Status("activities_planner") = "completed"
    /\ llm_log["accommodation_suggester"] = [i \in 1..(max_retries + 1) |-> "bad_shape"]

CannedFallbacks == {"fallback_accommodations", "sample_accommodations"}

C7_FallbackAccommodations ==
    (Returned /\ SuggesterRaisedEveryAttempt) =>
        /\ response.itinerary # None
        /\ response.accommodations \in CannedFallbacks
        /\ has_errors(workflow_metadata)
        /\ is_partial(response)

\* C7 (amended): the accommodation stage raised on every attempt after two
\* successful stages; the response then has the itinerary, accommodations is
\* left unset (None), the agent is FAILED, has_errors() and is_partial() hold.
C7_AccommodationsLeftUnset ==
    (Returned /\ SuggesterRaisedEveryAttempt) =>
        /\ response.itinerary # None
        /\ response.accommodations = None
        /\ Status("accommodation_suggester") = "failed"
        /\ has_errors(workflow_metadata)
        /\ is_partial(response)

C7_Witness ==
    /\ Returned
    /\ SuggesterRaisedEveryAttempt
    /\ response.itinerary = "itinerary"
    /\ workflow_metadata.overall_status = "completed"

\* C8: execute_workflow always returns; on return current_stage is COMPLETED
\* or FAILED; when the except clause of execute_workflow ran, overall_status
\* is 'failed' and the handler left the response fields as they were.
C8_FinalStage ==
    Returned =>
        /\ workflow_metadata.current_stage \in {"completed", "failed"}
        /\ handler_taken =>
              /\ workflow_metadata.overall_status = "failed"
              /\ workflow_metadata.current_stage = "failed"

C8_HandlerKeepsResponse == pc = "workflow_except" => response' = response

C8_AlwaysReturns ==
    /\ <>Returned
    /\ []C8_FinalStage
    /\ [][C8_HandlerKeepsResponse]_vars

C8_Witness ==
    /\ Returned
    /\ handler_taken
    /\ response.parsed_request # None
    /\ response.itinerary # None
    /\ workflow_metadata.overall_status = "failed"

\* C9: current_stage never moves back in the order PARSING_REQUEST,
\* FINDING_PLACES / PLANNING_ACTIVITIES, FINDING_ACCOMMODATIONS,
\* ASSEMBLING_RESPONSE, COMPLETED / FAILED, and it becomes COMPLETED only
\* from ASSEMBLING_RESPONSE.
StageRank == [parsing_request |-> 1, finding_places |-> 2, planning_activities |-> 2,
              finding_accommodations |-> 3, assembling_response |-> 4,
              completed |-> 5, failed |-> 5]

C9_Step ==
    /\ StageRank[workflow_metadata'.current_stage] >=
           StageRank[workflow_metadata.current_stage]
    /\ (workflow_metadata'.current_stage = "completed"
            /\ workflow_metadata.current_stage # "completed") =>
           workflow_metadata.current_stage = "assembling_response"

C9_StageMovesForward == [][C9_Step]_vars

C9_Witness ==
    /\ workflow_metadata.current_stage = "completed"
    /\ Status("accommodation_suggester") = "completed"
    /\ Len(progress) = 9

(***************************************************************************)
(* Properties of the parallel workflow                                     *)
(***************************************************************************)
Succeeded(t) == task[t].pc = "done" /\ task[t].result # "exception"

Failed(t) == task[t].pc = "done" /\ task[t].result = "exception"

\* C10: in every interleaving both branches run to their own outcome, and in
\* the response generate_itinerary returns a branch that succeeded has its
\* result unchanged while a branch that raised has its fallback.
C10_BranchesIsolated ==
    /\ (ppc = "returned" /\ travel_request # NoRequest) =>
          /\ \A t \in Tasks : task[t].pc = "done"
          /\ Succeeded("activities") => presponse.itinerary = task["activities"].result
          /\ Failed("activities") => presponse.itinerary = "fallback_itinerary"
          /\ Succeeded("accommodation") =>
                presponse.accommodations = task["accommodation"].result
          /\ Failed("accommodation") =>
                presponse.accommodations = "fallback_accommodations"

(***************************************************************************)
(* Properties of the RequestParser conversation                            *)
(***************************************************************************)
CoreFields(cd) == <<cd.destination, cd.duration, cd.travelers, cd.budget>>

AllCollected(cd) ==
    /\ cd.destination # None
    /\ cd.duration # Null
    /\ cd.travelers # Null
    /\ cd.budget # NoBudget

\* C11: after any sequence of turns, collected_data.is_complete is true
\* exactly when destination, duration, travelers and budget are all present
\* and neither a disambiguation nor a parse error is pending.
C11_IsCompleteIffCollected ==
    collected_data.is_complete <=>
        /\ AllCollected(collected_data)
        /\ collected_data.needs_disambiguation = None
        /\ collected_data.parse_error = None

\* C12: while the collected destination is a name of the ambiguous list, the
\* request is not marked complete, whatever the model answered.
C12_AmbiguousNotComplete ==
    check_destination_disambiguation(collected_data.destination) # None
        => /\ ~collected_data.is_complete
           /\ ~returned.is_complete

MalformedReplies == {r \in LLMReplies : r.kind \in {"not_json", "missing_keys", "json_string"}}

RetryMessages ==
    {"could_not_process_rephrase", "trouble_understanding_rephrase", "error_try_again"}

C13_Step ==
    llm_response' \in MalformedReplies =>
            /\ CoreFields(collected_data') = CoreFields(collected_data)
            /\ returned'.parse_error \in RetryMessages
            /\ ~returned'.is_complete

C14_TierFollowsCurrentData ==
    (/\ collected_data.travelers # Null
     /\ collected_data.duration # Null
     /\ collected_data.budget # NoBudget)
    => collected_data.budget.accommodation_type =
          determine_accommodation_type(collected_data.budget.total_amount,
              collected_data.travelers, collected_data.duration,
              collected_data.budget.currency)

C15_Step ==
    (collected_data.is_complete /\ continue_conversation_turn)
        => CoreFields(collected_data') = CoreFields(collected_data)

\* C15: once the collected request is complete, a further
\* continue_conversation turn changes none of its four fields.
C15_CompleteIsFrozen == [][C15_Step]_vars

C16_Range ==
    /\ collected_data.duration # Null =>
          collected_data.duration \in MinDuration..MaxDuration
    /\ collected_data.budget # NoBudget => collected_data.budget.total_amount > 0

C16_Step ==
    LET reply == llm_response'
    IN reply.kind = "json" =>
            /\ (reply.duration # Null /\ reply.duration \notin MinDuration..MaxDuration)
                  => collected_data'.duration = collected_data.duration
            /\ (reply.budget # NoBudget /\ reply.budget.total_amount <= 0)
                  => /\ collected_data'.budget.total_amount
                          = collected_data.budget.total_amount
                     /\ collected_data'.budget.currency = collected_data.budget.currency

\* C16: a collected duration is always within 1..365 and a collected budget
\* amount always positive; a reply with an out-of-range duration or a
\* non-positive amount leaves the collected value of that field as it was.
C16_ValidatedFields == []C16_Range /\ [][C16_Step]_vars

C16_Witness ==
    /\ llm_response.kind = "json"
    /\ llm_response.duration = MaxDuration + 1
    /\ llm_response.budget # NoBudget
    /\ llm_response.budget.total_amount = 0
    /\ collected_data.duration # Null
    /\ collected_data.budget # NoBudget

(***************************************************************************)
(* Properties of determine_accommodation_type                              *)
(***************************************************************************)
PersonDays(a) == a.travelers_count * a.duration

\* a's budget per person per day is at most b's (cross-multiplied)
ValueAtMost(a, b) == a.total_budget * PersonDays(b) <= b.total_budget * PersonDays(a)

TierRank(t) == CASE t = "budget" -> 1 [] t = "mid-range" -> 2 [] t = "luxury" -> 3 [] OTHER -> 0

\* C17: the tier is a function of the budget per person per day and of the
\* currency: equal values in one currency get equal tiers, a larger value
\* never gets a lower tier, and a currency other than USD, INR and EUR gets
\* the middle tier.
C17_TierIsMonotoneFunction ==
    tier_result # <<None, None>> =>
        LET a == tier_args[1]
            b == tier_args[2]
        IN /\ tier_result[1] \in AccommodationType
           /\ (upper(a.currency) = upper(b.currency) /\ ValueAtMost(a, b))
                 => TierRank(tier_result[1]) <= TierRank(tier_result[2])
           /\ (upper(a.currency) = upper(b.currency) /\ ValueAtMost(a, b) /\ ValueAtMost(b, a))
                 => tier_result[1] = tier_result[2]
           /\ upper(a.currency) \notin {"USD", "INR", "EUR"} => tier_result[1] = "mid-range"

C17_Witness ==
    /\ tier_result # <<None, None>>
    /\ tier_args[1].currency = tier_args[2].currency
    /\ tier_args[1].total_budget # tier_args[2].total_budget
    /\ ValueAtMost(tier_args[1], tier_args[2])
    /\ ValueAtMost(tier_args[2], tier_args[1])
    /\ tier_result[1] = "luxury"

(***************************************************************************)
(* Properties of the itinerary phase                                       *)
(***************************************************************************)
PlanReturned == plan_pc \in {"returned", "returned_fallback"}

RECURSIVE Concat(_)
Concat(days) ==
    IF days = <<>> THEN <<>> ELSE Head(days).activities \o Concat(Tail(days))

\* C18: the returned days hold every activity exactly once, in the original
\* order: concatenating the days gives back the activity list, each day but
\* the last has activities_per_day of them and the last day has the rest.
C18_EveryActivityPlanned ==
    PlanReturned =>
        /\ Concat(daily_itineraries) = activities
        /\ \A i \in 1..(Len(daily_itineraries) - 1) :
              Len(daily_itineraries[i].activities)
                  <= activities_per_day(activities, trip_duration)

\* C19: the day numbers of the returned days are 1..duration, each once and
\* in increasing order, on the main path and on the fallback path.
C19_DayNumbers ==
    PlanReturned =>
        /\ Len(daily_itineraries) = trip_duration
        /\ \A i \in 1..Len(daily_itineraries) : daily_itineraries[i].day_number = i

C19_Witness ==
    /\ plan_pc = "returned_fallback"
    /\ activities = <<>>
    /\ trip_duration = MaxTripDuration
    /\ Len(daily_itineraries) = MaxTripDuration

(***************************************************************************)
(* Properties of the research phase inside the sequential workflow         *)
(***************************************************************************)
PlannerStageOver == Status("activities_planner") \in {"completed", "failed"}

\* C20: when the search collaborator raised on every query of every research
\* call, the search step gave an empty result list without raising, the
\* ActivitiesPlanner stage ends FAILED, and the RequestParser stage stays
\* COMPLETED with its parsed_request.
C20_SearchFailureFailsStage ==
    (search_seen = {"raises"} /\ PlannerStageOver) =>
        /\ search_must_visit_places("raises") = "no_results"
        /\ Status("activities_planner") = "failed"
        /\ Status("request_parser") = "completed"
        /\ response.parsed_request # None

\* the reply of the last research call of the ActivitiesPlanner stage
LastResearchReply ==
    LET log == llm_log["activities_planner"] IN log[Len(log)]

\* C21: when the model's reply of a research call is not JSON or not of the
\* expected shape, research_destination returns status "error" (it neither
\* raises nor returns status "success").
C21_BadReplyIsResearchError ==
    (/\ llm_log["activities_planner"] # <<>>
     /\ LastResearchReply \in {"malformed", "bad_shape"})
        => research_destination(LastResearchReply).status = "error"

(***************************************************************************)
(* Properties of suggest_accommodations                                    *)
(***************************************************************************)
Classified == acc_pc \in {"search", "format", "returned"} \/ budget_tier # None

\* C22: the tier is "low" when nightly_budget <= low.max, "medium" when
\* low.max < nightly_budget <= medium.max and "high" otherwise, for
\* nightly_budget = 40% of the total budget / duration; 25000 INR over 3 days
\* with the INR fallback bands is "low"; missing band data gives "medium".
C22_BudgetTier ==
    Classified =>
        LET total == budget_info.total_budget
            nights == budget_info.duration_days
            low == budget_categories.low
            medium == budget_categories.medium
            banded == {"low", "medium"} \subseteq DOMAIN budget_categories
        IN /\ ~banded => budget_tier = "medium"
           /\ banded =>
                 /\ budget_tier = "low" <=> 4 * total <= 10 * nights * low.max
                 /\ budget_tier = "medium" <=>
                       /\ 4 * total > 10 * nights * low.max
                       /\ 4 * total <= 10 * nights * medium.max
                 /\ budget_tier = "high" <=>
                       /\ 4 * total > 10 * nights * low.max
                       /\ 4 * total > 10 * nights * medium.max
           /\ (/\ total = 25000 /\ nights = 3
               /\ banded
               /\ low.max = 3500 /\ medium.max = 8000) => budget_tier = "low"

C22_Witness ==
    /\ acc_pc = "returned"
    /\ budget_info = [total_budget |-> 25000, currency |-> "INR", duration_days |-> 3]
    /\ budget_categories = fallback_budget_categories("INR")
    /\ "budget_research" \in acc_failed
    /\ budget_tier = "low"

AccOver == acc_pc \in {"returned", "raised"}

\* C23: when exactly one of the five steps of suggest_accommodations failed,
\* the call returns (it does not raise) and that step's default is what the
\* pipeline went on with.
C23_SingleStepFailureIsAbsorbed ==
    (AccOver /\ Cardinality(acc_failed) = 1) =>
        /\ acc_pc = "returned"
        /\ "location_clustering" \in acc_failed =>
              key_activity_areas = fallback_location_analysis(acc_itinerary)
        /\ "budget_research" \in acc_failed =>
              budget_categories = fallback_budget_categories(budget_info.currency)
        /\ "tier_classification" \in acc_failed => budget_tier = "medium"
        /\ "hotel_search" \in acc_failed =>
              hotels \in {<<>>, fallback_hotel_extraction}

\* C24: every AccommodationOutput that suggest_accommodations returns carries
\* 2 or 3 accommodation options, on the fallback paths too.
C24_TwoOrThreeOptions ==
    acc_pc = "returned" => Len(acc_result.accommodation_options) \in 2..3

(***************************************************************************)
(* Properties of the fan-out search                                        *)
(***************************************************************************)
\* what query q contributes: its results when it succeeded, nothing otherwise
Contribution(q) ==
    IF search_tasks[q].how = "returned" THEN search_tasks[q].result ELSE <<>>

RECURSIVE InSubmissionOrder(_)
InSubmissionOrder(q) ==
    IF q > Len(search_tasks) THEN <<>> ELSE Contribution(q) \o InSubmissionOrder(q + 1)

\* C25: for every set of failing queries and every completion order, the
\* aggregated list is the concatenation of the successful queries' results
\* in submission order; failed and empty queries contribute nothing.
C25_AggregatedInSubmissionOrder ==
    fan_pc = "aggregated" => all_results = InSubmissionOrder(1)

C25_Witness ==
    /\ fan_pc = "aggregated"
    /\ Len(search_tasks) = PlaceQueries
    /\ completion_order = <<3, 1, 4, 2>>
    /\ search_tasks[1].how = "returned" /\ Len(search_tasks[1].result) = MaxResults
    /\ search_tasks[2].how = "client_raised"
    /\ search_tasks[3].how = "returned" /\ search_tasks[3].result # <<>>
    /\ search_tasks[4].how = "exception"
    /\ all_results = search_tasks[1].result \o search_tasks[3].result

(***************************************************************************)
(* Progress, agent status and final status of the sequential workflow      *)
(***************************************************************************)
\* the percentages written in the calls of _update_progress
Checkpoints == {Pct(p) : p \in {0, 5, 25, 30, 65, 70, 90, 95, 100}}

\* C26: every percentage handed to the progress callback is one of the fixed
\* checkpoints 0, 5, 25, 30, 65, 70, 90, 95, 100 and the reported percentages
\* never decrease, on the stage-failure paths and on the top-level error
\* path too.
C26_ProgressCheckpoints ==
    /\ \A i \in 1..Len(progress) : progress[i] \in Checkpoints
    /\ \A i \in 1..(Len(progress) - 1) : progress[i] <= progress[i + 1]

\* the response field each agent produces
Produces == [request_parser |-> "parsed_request",
             activities_planner |-> "itinerary",
             accommodation_suggester |-> "accommodations"]

\* C27: at every progress report, every suspension point and on return, an
\* agent is COMPLETED exactly when the response field it produces is
\* populated; so on return is_complete() holds exactly when the three agents
\* are COMPLETED.
C27_CompletedIffPopulated ==
    /\ \A a \in Agents : Status(a) = "completed" <=> response[Produces[a]] # None
    /\ pc = "done" => (is_complete(response) <=> \A a \in Agents : Status(a) = "completed")

C27_Witness ==
    /\ pc = "done"
    /\ Status("request_parser") = "completed"
    /\ Status("activities_planner") = "completed"
    /\ Status("accommodation_suggester") = "failed"
    /\ response.itinerary # None
    /\ response.accommodations = None
    /\ ~is_complete(response)

\* C28: execute_workflow ends with overall_status "failed" and current_stage
\* FAILED exactly when an exception reached its except clause; when stages
\* only fail after their retries, it ends with overall_status "completed" and
\* current_stage COMPLETED, even with FAILED agents and a response that is
\* not is_complete().
C28_FailedIffHandlerTaken ==
    pc = "done" =>
        /\ handler_taken <=>
              /\ workflow_metadata.overall_status = "failed"
              /\ workflow_metadata.current_stage = "failed"
        /\ ~handler_taken =>
              /\ workflow_metadata.overall_status = "completed"
              /\ workflow_metadata.current_stage = "completed"

C28_Witness ==
    /\ pc = "done"
    /\ ~handler_taken
    /\ workflow_metadata.overall_status = "completed"
    /\ Status("request_parser") = "completed"
    /\ Status("activities_planner") = "failed"
    /\ attempt["activities_planner"] = max_retries
    /\ ~is_complete(response)
    /\ has_errors(workflow_metadata)

(***************************************************************************)
(* The is_complete flag the RequestParser hands to its caller              *)
(***************************************************************************)
\* C30: the is_complete flag of the dict start_conversation or
\* continue_conversation returns is true only if ConversationManager's
\* is_complete() holds for the collected data, so a caller branching on the
\* flag gets a final request with the four validated fields.
C30_ReturnedFlagIsManagers ==
    returned.is_complete =>
        /\ manager_is_complete(collected_data)
        /\ AllCollected(collected_data)

(***************************************************************************)
(* The interactive conversation loop of the parallel workflow              *)
(***************************************************************************)
\* follow-up answers processed so far by _handle_interactive_conversation
FollowUps == conversation_turn - 1

\* the loop was entered and has ended
LoopEnded == interactive /\ FollowUps >= 1 /\ ppc # "conversation"

TooManyTurns == handle_workflow_error("Too many conversation turns")

\* C29: when the parser reports is_complete after the k-th follow-up answer,
\* k in 1..10, the loop returns the final request; "Too many conversation
\* turns" is raised only after 10 follow-up answers without completion; the
\* loop ends within 10 follow-up turns.
C29_LoopReturnsWithinTenTurns ==
    /\ FollowUps <= MaxConversationTurns
    /\ (LoopEnded /\ returned.is_complete) =>
          /\ travel_request # NoRequest
          /\ presponse # TooManyTurns
    /\ presponse = TooManyTurns =>
          /\ FollowUps = MaxConversationTurns
          /\ ~returned.is_complete

====
